---- MODULE Spec2Model ----
(***************************************************************************)
(* Model of the newsletter generator: the App component's generation and   *)
(* refinement handlers (src/App.tsx), the geminiService functions that     *)
(* extract structured data from model output (src/unnamed/part_001) and    *)
(* the TopicInput component (src/components/NewsletterPreview.tsx).        *)
(*                                                                         *)
(* Texts.  A JavaScript string is modelled as a sequence of atoms.  Every  *)
(* structural character (backtick, bracket, brace, double quote, colon,    *)
(* comma, space, newline) is an atom of its own; a maximal run of other    *)
(* characters (a word, a number, an HTML fragment) is one atom.            *)
(***************************************************************************)
EXTENDS Integers, Sequences, FiniteSets, TLC

\* Bounds of the model.
MaxCycles == 2
MaxInvocations == 3

NULL == <<"null">>

(***************************************************************************)
(* String primitives of JavaScript used by the source.                     *)
(***************************************************************************)
IsWs(a) == a \in {" ", "\n"}

FirstNonWs(s) ==
  IF \A i \in 1..Len(s) : IsWs(s[i]) THEN Len(s) + 1
  ELSE CHOOSE i \in 1..Len(s) : ~IsWs(s[i]) /\ \A j \in 1..(i-1) : IsWs(s[j])

LastNonWs(s) ==
  IF \A i \in 1..Len(s) : IsWs(s[i]) THEN 0
  ELSE CHOOSE i \in 1..Len(s) : ~IsWs(s[i]) /\ \A j \in (i+1)..Len(s) : IsWs(s[j])

\* String.prototype.trim
Trim(s) == SubSeq(s, FirstNonWs(s), LastNonWs(s))

\* the literal lit occurs in s at position i
MatchAt(s, i, lit) ==
  /\ i >= 1
  /\ i + Len(lit) - 1 <= Len(s)
  /\ SubSeq(s, i, i + Len(lit) - 1) = lit

\* String.prototype.startsWith / endsWith for a one-character argument
StartsWith(s, a) == Len(s) >= 1 /\ s[1] = a
EndsWith(s, a) == Len(s) >= 1 /\ s[Len(s)] = a

\* String.prototype.indexOf / lastIndexOf, 1-based, 0 for "not found" (-1)
IndexOf(s, a) ==
  IF \E i \in 1..Len(s) : s[i] = a
  THEN CHOOSE i \in 1..Len(s) : s[i] = a /\ \A j \in 1..(i-1) : s[j] # a
  ELSE 0

LastIndexOf(s, a) ==
  IF \E i \in 1..Len(s) : s[i] = a
  THEN CHOOSE i \in 1..Len(s) : s[i] = a /\ \A j \in (i+1)..Len(s) : s[j] # a
  ELSE 0

SetMin(S) == CHOOSE x \in S : \A y \in S : x <= y
SetMax(S) == CHOOSE x \in S : \A y \in S : x >= y

(***************************************************************************)
(* Regular expressions of the source, by their matching semantics.         *)
(***************************************************************************)
\* the backtick character (the lexer of TLA+ has no string for it)
Backtick == "BACKTICK"
\* the markdown fence, three backticks
Fence == <<Backtick, Backtick, Backtick>>

\* position reached by a greedy whitespace* started at i
SkipWs(s, i) ==
  IF \A j \in i..Len(s) : IsWs(s[j]) THEN Len(s) + 1
  ELSE CHOOSE j \in i..Len(s) : ~IsWs(s[j]) /\ \A k \in i..(j-1) : IsWs(s[k])

\* whitespace* fence matches at i (a backtick is no whitespace, so the
\* whitespace run is taken whole)
WsThenFence(s, i) == MatchAt(s, SkipWs(s, i), Fence)

\* position after the fence and its optional tag (?:tag1|tag2)? when the
\* fence starts at i; the optional tag is taken whenever it is there (skipping it leaves the tag word in
\* front of what follows, which the alternatives below never help)
AfterTag(s, i, tags) ==
  IF i + 3 <= Len(s) /\ s[i+3] \in tags THEN i + 4 ELSE i + 3

\* news pattern, fence (?:json)? \s* ( \[ [\s\S]* \] ) \s* fence :
\* start of group 1 for a match at i
NewsCapStart(s, i) == SkipWs(s, AfterTag(s, i, {"json"}))

\* ends of group 1 the pattern allows for a match at i
NewsCapEnds(s, i) ==
  { e \in (NewsCapStart(s, i) + 1)..Len(s) : s[e] = "]" /\ WsThenFence(s, e + 1) }

NewsMatchesAt(s, i) ==
  /\ MatchAt(s, i, Fence)
  /\ NewsCapStart(s, i) <= Len(s)
  /\ s[NewsCapStart(s, i)] = "["
  /\ NewsCapEnds(s, i) # {}

NewsMatchStarts(s) == { i \in 1..Len(s) : NewsMatchesAt(s, i) }

\* group 1 of String.match: leftmost match, [\s\S]* greedy
NewsMatchGroup(s) ==
  LET i == SetMin(NewsMatchStarts(s))
  IN  SubSeq(s, NewsCapStart(s, i), SetMax(NewsCapEnds(s, i)))

\* draft and refinement pattern, fence (?:tags)? \s* ( [\s\S]*? ) \s* fence :
\* start of group 1 for a match at i
LazyCapStart(s, i, tags) == SkipWs(s, AfterTag(s, i, tags))

\* lengths of group 1 the pattern allows for a match at i
LazyCapLens(s, i, tags) ==
  { k \in 0..Len(s) : WsThenFence(s, LazyCapStart(s, i, tags) + k) }

LazyMatchesAt(s, i, tags) ==
  MatchAt(s, i, Fence) /\ LazyCapLens(s, i, tags) # {}

LazyMatchStarts(s, tags) == { i \in 1..Len(s) : LazyMatchesAt(s, i, tags) }

\* group 1 of String.match: leftmost match, [\s\S]*? lazy
LazyMatchGroup(s, tags) ==
  LET i == SetMin(LazyMatchStarts(s, tags))
      c == LazyCapStart(s, i, tags)
  IN  SubSeq(s, c, c + SetMin(LazyCapLens(s, i, tags)) - 1)

\* "Strip markdown fences if present": the match and group 1 are both truthy
StripFence(s, tags) ==
  IF LazyMatchStarts(s, tags) # {} /\ LazyMatchGroup(s, tags) # <<>>
  THEN Trim(LazyMatchGroup(s, tags))
  ELSE s

(***************************************************************************)
(* JSON.parse, for the JSON grammar over atoms: numbers and the literals   *)
(* are single atoms, a string is a pair of double quotes around atoms      *)
(* other than a double quote, arrays and objects nest.                     *)
(***************************************************************************)
JsonScalars == {"0", "1", "2", "true", "false", "null"}

\* index of the closing quote of the string that opens at i, 0 if unterminated
StringEnd(s, i) ==
  IF \E j \in (i+1)..Len(s) : s[j] = "\""
  THEN CHOOSE j \in (i+1)..Len(s) : s[j] = "\"" /\ \A k \in (i+1)..(j-1) : s[k] # "\""
  ELSE 0

RECURSIVE ValueEnd(_, _), ElemsEnd(_, _), MembersEnd(_, _)

\* index of the last atom of the JSON value that starts at i, 0 if there is none
ValueEnd(s, i) ==
  IF i > Len(s) THEN 0
  ELSE IF s[i] = "\"" THEN StringEnd(s, i)
  ELSE IF s[i] \in JsonScalars THEN i
  ELSE IF s[i] = "[" THEN
    LET p == SkipWs(s, i + 1)
    IN  IF p <= Len(s) /\ s[p] = "]" THEN p ELSE ElemsEnd(s, p)
  ELSE IF s[i] = "{" THEN
    LET p == SkipWs(s, i + 1)
    IN  IF p <= Len(s) /\ s[p] = "}" THEN p ELSE MembersEnd(s, p)
  ELSE 0

\* index of the "]" closing the element list whose next element starts at p
ElemsEnd(s, p) ==
  LET e == ValueEnd(s, p)
      q == SkipWs(s, e + 1)
  IN  IF e = 0 \/ q > Len(s) THEN 0
      ELSE IF s[q] = "]" THEN q
      ELSE IF s[q] = "," THEN ElemsEnd(s, SkipWs(s, q + 1))
      ELSE 0

\* index of the "}" closing the member list whose next member starts at p
MembersEnd(s, p) ==
  LET ke == IF p <= Len(s) /\ s[p] = "\"" THEN StringEnd(s, p) ELSE 0
      c  == SkipWs(s, ke + 1)
      ve == IF ke # 0 /\ c <= Len(s) /\ s[c] = ":"
            THEN ValueEnd(s, SkipWs(s, c + 1)) ELSE 0
      q  == SkipWs(s, ve + 1)
  IN  IF ve = 0 \/ q > Len(s) THEN 0
      ELSE IF s[q] = "}" THEN q
      ELSE IF s[q] = "," THEN MembersEnd(s, SkipWs(s, q + 1))
      ELSE 0

\* JSON.parse(s) returns (does not throw SyntaxError)
JsonValid(s) ==
  LET p == SkipWs(s, 1)
      e == ValueEnd(s, p)
  IN  e # 0 /\ SkipWs(s, e + 1) > Len(s)

RECURSIVE ElemList(_, _)
\* the elements of a valid array, each as its JSON text; p is the start of
\* the next element or the closing bracket
ElemList(s, p) ==
  IF s[p] = "]" THEN <<>>
  ELSE LET e == ValueEnd(s, p)
           q == SkipWs(s, e + 1)
       IN  <<SubSeq(s, p, e)>> \o
           (IF s[q] = "," THEN ElemList(s, SkipWs(s, q + 1)) ELSE <<>>)

RECURSIVE MemberList(_, _)
\* the members of a valid object, as key (string content) and value (JSON text)
MemberList(s, p) ==
  IF s[p] = "}" THEN <<>>
  ELSE LET ke == StringEnd(s, p)
           vs == SkipWs(s, SkipWs(s, ke + 1) + 1)
           ve == ValueEnd(s, vs)
           q  == SkipWs(s, ve + 1)
       IN  <<[key |-> SubSeq(s, p + 1, ke - 1), val |-> SubSeq(s, vs, ve)]>> \o
           (IF s[q] = "," THEN MemberList(s, SkipWs(s, q + 1)) ELSE <<>>)

\* the parsed array of a valid JSON text that is an array
JsonArray(s) == LET p == SkipWs(s, 1) IN ElemList(s, SkipWs(s, p + 1))

\* the members of a valid JSON text that is an object
JsonObject(s) == LET p == SkipWs(s, 1) IN MemberList(s, SkipWs(s, p + 1))

Undefined == <<"undefined">>

\* obj.key of a parsed object: the last member of that name, else undefined
Prop(members, key) ==
  IF \E i \in 1..Len(members) : members[i].key = <<key>>
  THEN members[SetMax({ i \in 1..Len(members) : members[i].key = <<key>> })].val
  ELSE Undefined

\* the JSON text v is a string value
IsJsonString(v) == Len(v) >= 2 /\ v[1] = "\"" /\ v[Len(v)] = "\""

\* JavaScript truthiness of a property value given as JSON text
Truthy(v) ==
  /\ v # Undefined
  /\ v \notin {<<"0">>, <<"false">>, <<"null">>, <<"\"", "\"">>}

\* the JavaScript value of a property: the content of a string, or else its text
JsValue(v) == IF IsJsonString(v) THEN SubSeq(v, 2, Len(v) - 1) ELSE v

(***************************************************************************)
(* The AI boundary.  A call settles with a response: it rejects            *)
(* (transport failure) or resolves; text is response.text of a text call   *)
(* and the imageBytes of response.generatedImages of an image call.        *)
(***************************************************************************)
Q == "\""
Rejected == [rejects |-> TRUE, text |-> <<>>]
Resolved(t) == [rejects |-> FALSE, text |-> t]

\* one article of a news response
Article(t) == <<"{", Q, "title", Q, ":", Q, t, Q, "}">>

NewsFenced == Fence \o <<"json", "\n", "[">> \o Article("T1") \o <<"]", "\n">> \o Fence
NewsBare == <<"Here", " ", "[">> \o Article("T2") \o <<",", " ">> \o Article("T3")
            \o <<"]", " ", "done">>
NewsEmptyArray == <<"[", " ", "]">>
NewsNoArray == <<"no", " ", "news">>
NewsReversed == <<"]", " ", "none", " ", "[">>
NewsBadJson == <<"[", "oops", "]">>
NewsTwoFences == Fence \o <<"[">> \o Article("T1") \o <<"]">> \o Fence \o <<" ", "and", " ">>
                 \o Fence \o <<"[">> \o Article("T2") \o <<"]">> \o Fence

NewsTexts == {NewsFenced, NewsBare, NewsEmptyArray, NewsNoArray, NewsReversed,
              NewsBadJson, NewsTwoFences}
NewsResponses == {Rejected} \cup {Resolved(t) : t \in NewsTexts}

DraftFenced == Fence \o <<"html", "\n", "<h1>Title</h1><p>Body</p>", "\n">> \o Fence
DraftBare == <<"<h1>News</h1>", "\n">>
DraftBlank == <<" ">>
DraftTexts == {DraftFenced, DraftBare, DraftBlank}
DraftResponses == {Rejected} \cup {Resolved(t) : t \in DraftTexts}

ImageResponses == {Rejected, Resolved(<<>>), Resolved(<<"iVBOR1">>), Resolved(<<"iVBOR2">>)}

\* the image directive of a refinement response
Directive(type, p) ==
  <<"{", Q, "requestType", Q, ":", Q, type, Q, ",", " ",
    Q, "newImagePrompt", Q, ":", Q>> \o p \o <<Q, "}">>

RefineHtml == <<"<h1>Refined</h1>">>
RefineImage == Directive("image", <<"mountains", " ", "at", " ", "dawn">>)
RefineFencedImage == Fence \o <<"json", "\n">> \o Directive("image", <<"sea">>) \o <<"\n">> \o Fence
RefineFencedHtml == <<"Sure", " ">> \o Fence \o <<"html", "\n", "<p>Fenced</p>", "\n">> \o Fence
RefineBadJson == <<"{", "oops", "}">>
RefineWrongType == Directive("text", <<"sea">>)
RefineNoPrompt == Directive("image", <<>>)
RefineBraceOpen == <<"{", "title", "}", " ", "<p>Hi</p>">>
RefineBlank == <<"\n">>
RefineMissingPrompt == <<"{", Q, "requestType", Q, ":", Q, "image", Q, "}">>
RefineTexts == {RefineHtml, RefineImage, RefineFencedImage, RefineFencedHtml,
                RefineBadJson, RefineWrongType, RefineNoPrompt, RefineMissingPrompt,
                RefineBraceOpen, RefineBlank}
RefineResponses == {Rejected} \cup {Resolved(t) : t \in RefineTexts}

(***************************************************************************)
(* geminiService.  A service function returns [ok, value, error]: the      *)
(* value its promise resolves with, or the message of the Error it         *)
(* rejects with.                                                           *)
(***************************************************************************)
MsgNoTopics == <<"Please add at least one topic.">>
MsgNoArray == <<"The AI returned data in an unexpected format. Could not find a JSON array.">>
MsgNoArticles == <<"The AI returned no articles. The response might be empty or in an unexpected format.">>
MsgParse == <<"Failed to parse the news data from the AI. The format was invalid.">>
MsgFetch == <<"Failed to fetch news from the AI. Check API key or try again later.">>
MsgNoRelevant == <<"Could not find any relevant news articles. Try different topics.">>
MsgDraft == <<"Failed to generate the newsletter from the AI. Please try again.">>
MsgImage == <<"Failed to generate the header image from the AI. Please try again.">>
MsgRefine == <<"Failed to refine the newsletter from the AI. Please try again.">>
MsgFormat == <<"AI response was not in the expected format. Please rephrase.">>

Return(v) == [ok |-> TRUE, value |-> v, error |-> NULL]
Throw(m) == [ok |-> FALSE, value |-> <<>>, error |-> m]

\* a fenced array matched: markdownMatch && markdownMatch[1]
NewsFenceFound(rawText) == NewsMatchStarts(rawText) # {}

\* the bracket fallback finds no array
NewsNoBrackets(rawText) ==
  LET jsonStartIndex == IndexOf(rawText, "[")
      jsonEndIndex == LastIndexOf(rawText, "]")
  IN  jsonStartIndex = 0 \/ jsonEndIndex = 0 \/ jsonEndIndex < jsonStartIndex

\* jsonText, the text handed to JSON.parse
NewsJsonText(rawText) ==
  IF NewsFenceFound(rawText) THEN NewsMatchGroup(rawText)
  ELSE SubSeq(rawText, IndexOf(rawText, "["), LastIndexOf(rawText, "]"))

\* what the try block of fetchTrendingNews does with a response: it returns
\* the articles or throws; class is the class of the thrown object
NewsTry(r) ==
  IF r.rejects THEN [class |-> "Error", msg |-> <<"transport">>, articles |-> <<>>]
  ELSE LET rawText == Trim(r.text)
       IN  IF ~NewsFenceFound(rawText) /\ NewsNoBrackets(rawText)
             THEN [class |-> "Error", msg |-> MsgNoArray, articles |-> <<>>]
           ELSE IF ~JsonValid(NewsJsonText(rawText))
             THEN [class |-> "SyntaxError", msg |-> <<"syntax">>, articles |-> <<>>]
           ELSE IF Len(JsonArray(NewsJsonText(rawText))) = 0
             THEN [class |-> "Error", msg |-> MsgNoArticles, articles |-> <<>>]
           ELSE [class |-> "none", msg |-> NULL, articles |-> JsonArray(NewsJsonText(rawText))]

\* mutant: the catch block does not tell a SyntaxError from other errors
NewsCatch_AlwaysFetch(e) == MsgFetch

\* the catch block of fetchTrendingNews: the message of the Error it throws
NewsCatch(e) == IF e.class = "SyntaxError" THEN MsgParse ELSE MsgFetch

fetchTrendingNews(r) ==
  LET t == NewsTry(r)
  IN  IF t.class = "none" THEN Return(t.articles) ELSE Throw(NewsCatch(t))

\* mutant: a blank response is not refused
generateNewsletter_NoEmptyCheck(r) ==
  IF r.rejects THEN Throw(MsgDraft)
  ELSE Return(StripFence(Trim(r.text), {"html"}))

generateNewsletter(r) ==
  IF r.rejects \/ Trim(r.text) = <<>> THEN Throw(MsgDraft)
  ELSE Return(StripFence(Trim(r.text), {"html"}))

generateHeaderImage(r) ==
  IF r.rejects \/ Len(r.text) = 0 THEN Throw(MsgImage)
  ELSE Return(<<r.text[1]>>)

refineNewsletter(r) ==
  IF r.rejects \/ Trim(r.text) = <<>> THEN Throw(MsgRefine)
  ELSE Return(StripFence(Trim(r.text), {"json", "html"}))

(***************************************************************************)
(* State of the App component and of the TopicInput component.             *)
(***************************************************************************)
VARIABLES
  topics,              \* App: topics (kept in local storage)
  inputValue,          \* TopicInput: inputValue
  shouldGenerateImage, \* App: shouldGenerateImage
  customImagePrompt,   \* App: customImagePrompt
  newsletterHtml,      \* App: newsletterHtml, NULL or the body HTML
  headerImageUrl,      \* App: headerImageUrl, NULL or a data URI
  articles,            \* App: articles
  refinementPrompt,    \* App: refinementPrompt
  loadingAction,       \* App: loadingAction, "null", "generate" or "refine"
  error,               \* App: error, NULL or a message
  cyc,                 \* the handler invocations in flight, each suspended at an await
  ev,                  \* the last step taken and the invocation it belongs to
  invocations,         \* handler invocations made by a caller that ignores isLoading
  probe                \* a model response under extraction, and what was extracted

formVars == <<topics, inputValue, shouldGenerateImage, customImagePrompt>>
sessVars == <<newsletterHtml, headerImageUrl, articles, refinementPrompt, loadingAction, error>>
vars == <<formVars, sessVars, cyc, ev, invocations, probe>>

isLoading == loadingAction # "null"

\* the session state a handler invocation finds
Snapshot == [html |-> newsletterHtml, img |-> headerImageUrl, articles |-> articles,
             error |-> error, prompt |-> refinementPrompt, loading |-> loadingAction]

NoSnapshot == [html |-> NULL, img |-> NULL, articles |-> <<>>,
               error |-> NULL, prompt |-> <<>>, loading |-> "null"]

\* A handler invocation: pc is the await it is suspended at; topics, genImage
\* and custom are the values its closure captured; calls are the boundary
\* calls it issued and resps the responses they settled with, in order.
\* For a handler of TopicInput, topics is the list it was rendered with and
\* arg the input value or the topic it was called for.
NoCycle == [pc |-> "none", kind |-> "none", topics |-> <<>>, genImage |-> FALSE,
            custom |-> <<>>, arg |-> <<>>, calls |-> <<>>, resps |-> <<>>,
            pre |-> NoSnapshot]

\* raw is response.text; parsed tells whether JSON.parse was called, out is
\* the text it was called with, ok and error are how the function settled
NoProbe == [fn |-> "none", raw |-> <<>>, parsed |-> FALSE, out |-> <<>>,
            ok |-> FALSE, error |-> NULL]

Slots == 1..MaxCycles
FreeSlots == { i \in Slots : cyc[i].pc = "none" }
InFlight == { i \in Slots : cyc[i].pc # "none" }

\* the calls on the AI boundary
NewsCall(ts) == [fn |-> "fetchTrendingNews", prompt |-> ts, articles |-> <<>>, html |-> <<>>]
DraftCall(as, ts) == [fn |-> "generateNewsletter", prompt |-> ts, articles |-> as, html |-> <<>>]
ImageCall(p) == [fn |-> "generateHeaderImage", prompt |-> p, articles |-> <<>>, html |-> <<>>]
RefineCall(h, as, p) == [fn |-> "refineNewsletter", prompt |-> p, articles |-> as, html |-> h]

\* topics.join(', '): a topic is a text, the list a sequence of texts
RECURSIVE Join(_)
Join(ts) ==
  IF ts = <<>> THEN <<>>
  ELSE IF Len(ts) = 1 THEN ts[1]
  ELSE ts[1] \o <<",", " ">> \o Join(Tail(ts))

\* imagePrompt of handleGenerateNewsletter: the custom prompt or the template
ImagePrompt(custom, ts) ==
  IF Trim(custom) # <<>> THEN Trim(custom)
  ELSE <<"A professional and visually appealing header image for a newsletter about ">>
       \o Join(ts) \o <<" Avoid text.">>

DataUri(b) == <<"data:image/png;base64,">> \o b

\* JavaScript falsiness of a string or null
Falsy(v) == v = NULL \/ v = <<>>

Init ==
  /\ topics = << <<"AI">> >>
  /\ inputValue = <<>>
  /\ shouldGenerateImage = TRUE
  /\ customImagePrompt = <<>>
  /\ newsletterHtml = NULL
  /\ headerImageUrl = NULL
  /\ articles = <<>>
  /\ refinementPrompt = <<>>
  /\ loadingAction = "null"
  /\ error = NULL
  /\ cyc = [i \in Slots |-> NoCycle]
  /\ ev = [op |-> "init", c |-> NoCycle]
  /\ invocations = 0
  /\ probe = NoProbe

(***************************************************************************)
(* handleGenerateNewsletter, one action per stretch between two awaits.    *)
(***************************************************************************)
\* the invocation in slot i has run to its end: finally, and the slot is free
Finish(i, op, c) ==
  /\ loadingAction' = "null"
  /\ cyc' = [cyc EXCEPT ![i] = NoCycle]
  /\ ev' = [op |-> op, c |-> [c EXCEPT !.pc = "done"]]

\* the invocation in slot i is suspended at its next await
Suspend(i, op, c) ==
  /\ cyc' = [cyc EXCEPT ![i] = c]
  /\ ev' = [op |-> op, c |-> c]

\* mutant: the reset leaves the articles of the previous cycle
GenerateReset_KeepsArticles ==
  /\ loadingAction' = "generate"
  /\ error' = NULL
  /\ newsletterHtml' = NULL
  /\ headerImageUrl' = NULL
  /\ UNCHANGED articles

\* the reset at the start of a generation cycle
GenerateReset ==
  /\ loadingAction' = "generate"
  /\ error' = NULL
  /\ newsletterHtml' = NULL
  /\ headerImageUrl' = NULL
  /\ articles' = <<>>

\* mutant: the guard is missing
NoTopics_Never == FALSE

\* the entry guard: topics.length === 0
NoTopics == Len(topics) = 0

handleGenerateNewsletter ==
  IF NoTopics
  THEN /\ error' = MsgNoTopics
       /\ ev' = [op |-> "handleGenerateNewsletter",
                 c |-> [NoCycle EXCEPT !.kind = "generate", !.pc = "done", !.pre = Snapshot]]
       /\ UNCHANGED <<formVars, newsletterHtml, headerImageUrl, articles,
                      refinementPrompt, loadingAction, cyc, probe>>
  ELSE \E i \in FreeSlots :
       /\ i = SetMin(FreeSlots)
       /\ GenerateReset
       /\ Suspend(i, "handleGenerateNewsletter",
                  [NoCycle EXCEPT !.pc = "news", !.kind = "generate", !.topics = topics,
                                  !.genImage = shouldGenerateImage,
                                  !.custom = customImagePrompt,
                                  !.calls = <<NewsCall(topics)>>, !.pre = Snapshot])
       /\ UNCHANGED <<formVars, refinementPrompt, probe>>

\* the news step throws: fetchTrendingNews rejects, or articlesData is empty
NewsStepThrows(res) == ~res.ok \/ Len(res.value) = 0

\* the news call settles: lines 68-75, or catch and finally
NewsSettled(i, r) ==
  LET res == fetchTrendingNews(r)
      c == [cyc[i] EXCEPT !.resps = Append(@, r)]
  IN  /\ cyc[i].pc = "news"
      /\ IF ~NewsStepThrows(res)
         THEN /\ articles' = res.value
              /\ Suspend(i, "NewsSettled",
                         [c EXCEPT !.pc = "draft",
                                   !.calls = Append(@, DraftCall(res.value, c.topics))])
              /\ UNCHANGED <<newsletterHtml, headerImageUrl, refinementPrompt,
                             loadingAction, error>>
         ELSE /\ articles' = IF res.ok THEN res.value ELSE articles
              /\ error' = IF res.ok THEN MsgNoRelevant ELSE res.error
              /\ Finish(i, "NewsSettled", c)
              /\ UNCHANGED <<newsletterHtml, headerImageUrl, refinementPrompt>>
      /\ UNCHANGED <<formVars, probe>>

\* mutant: a failed draft does not end the cycle
DraftStepThrows_Never(res) == FALSE

\* the draft step throws: generateNewsletter rejects
DraftStepThrows(res) == ~res.ok

\* the draft call settles: lines 77-85, or catch and finally
DraftSettled(i, r) ==
  LET res == generateNewsletter(r)
      c == [cyc[i] EXCEPT !.resps = Append(@, r)]
  IN  /\ cyc[i].pc = "draft"
      /\ IF DraftStepThrows(res)
         THEN /\ error' = res.error
              /\ Finish(i, "DraftSettled", c)
              /\ UNCHANGED <<newsletterHtml>>
         ELSE /\ newsletterHtml' = res.value
              /\ IF c.genImage
                 THEN /\ Suspend(i, "DraftSettled",
                                 [c EXCEPT !.pc = "image",
                                           !.calls = Append(@, ImageCall(ImagePrompt(c.custom, c.topics)))])
                      /\ UNCHANGED <<loadingAction, error>>
                 ELSE /\ Finish(i, "DraftSettled", c)
                      /\ UNCHANGED <<error>>
      /\ UNCHANGED <<formVars, headerImageUrl, articles, refinementPrompt, probe>>

\* mutant: a failed image request discards the draft of the cycle
ImageSettled_DropsDraft(i, r) ==
  LET res == generateHeaderImage(r)
      c == [cyc[i] EXCEPT !.resps = Append(@, r)]
  IN  /\ cyc[i].pc = "image"
      /\ IF res.ok
         THEN headerImageUrl' = DataUri(res.value) /\ UNCHANGED <<error, newsletterHtml>>
         ELSE error' = res.error /\ newsletterHtml' = NULL /\ UNCHANGED headerImageUrl
      /\ Finish(i, "ImageSettled", c)
      /\ UNCHANGED <<formVars, articles, refinementPrompt, probe>>

\* the image call of a generation cycle settles: line 84, or catch; finally
ImageSettled(i, r) ==
  LET res == generateHeaderImage(r)
      c == [cyc[i] EXCEPT !.resps = Append(@, r)]
  IN  /\ cyc[i].pc = "image"
      /\ IF res.ok
         THEN headerImageUrl' = DataUri(res.value) /\ UNCHANGED error
         ELSE error' = res.error /\ UNCHANGED headerImageUrl
      /\ Finish(i, "ImageSettled", c)
      /\ UNCHANGED <<formVars, newsletterHtml, articles, refinementPrompt, probe>>

(***************************************************************************)
(* handleRefineNewsletter, one action per stretch between two awaits.      *)
(***************************************************************************)
\* mutant: the directive is not trimmed
RefineRefused_NoTrim == refinementPrompt = <<>> \/ Falsy(newsletterHtml)

\* the entry guard: an empty directive or no document
RefineRefused == Trim(refinementPrompt) = <<>> \/ Falsy(newsletterHtml)

handleRefineNewsletter ==
  IF RefineRefused
  THEN /\ ev' = [op |-> "handleRefineNewsletter",
                 c |-> [NoCycle EXCEPT !.kind = "refine", !.pc = "done", !.pre = Snapshot]]
       /\ UNCHANGED <<formVars, sessVars, cyc, probe>>
  ELSE \E i \in FreeSlots :
       /\ i = SetMin(FreeSlots)
       /\ loadingAction' = "refine"
       /\ error' = NULL
       /\ Suspend(i, "handleRefineNewsletter",
                  [NoCycle EXCEPT !.pc = "refine", !.kind = "refine",
                                  !.calls = <<RefineCall(newsletterHtml, articles, refinementPrompt)>>,
                                  !.pre = Snapshot])
       /\ UNCHANGED <<formVars, newsletterHtml, headerImageUrl, articles,
                      refinementPrompt, probe>>

\* mutant: only the opening brace is tested
IsJsonLike_StartOnly(result) == StartsWith(Trim(result), "{")

\* isJsonLike
IsJsonLike(result) == StartsWith(Trim(result), "{") /\ EndsWith(Trim(result), "}")

\* mutant: the request type of the directive is not looked at
IsImageDirective_AnyType(result) ==
  /\ JsonValid(result)
  /\ Truthy(Prop(JsonObject(result), "newImagePrompt"))

\* JSON.parse(result) returns an object that is an image directive
IsImageDirective(result) ==
  /\ JsonValid(result)
  /\ Prop(JsonObject(result), "requestType") = <<Q, "image", Q>>
  /\ Truthy(Prop(JsonObject(result), "newImagePrompt"))

\* mutant: the wrong property is passed on
NewImagePrompt_RequestType(result) == JsValue(Prop(JsonObject(result), "requestType"))

\* jsonResponse.newImagePrompt
NewImagePrompt(result) == JsValue(Prop(JsonObject(result), "newImagePrompt"))

\* mutant: the directive input is cleared only when the refinement failed
RefineSettled_KeepsPrompt(i, r) ==
  LET res == refineNewsletter(r)
      c == [cyc[i] EXCEPT !.resps = Append(@, r)]
  IN  /\ cyc[i].pc = "refine"
      /\ IF ~res.ok
         THEN /\ error' = res.error
              /\ refinementPrompt' = <<>>
              /\ Finish(i, "RefineSettled", c)
              /\ UNCHANGED <<newsletterHtml>>
         ELSE IF IsJsonLike(res.value)
         THEN IF IsImageDirective(res.value)
              THEN /\ Suspend(i, "RefineSettled",
                              [c EXCEPT !.pc = "rimage",
                                        !.calls = Append(@, ImageCall(NewImagePrompt(res.value)))])
                   /\ UNCHANGED <<newsletterHtml, refinementPrompt, loadingAction, error>>
              ELSE /\ error' = MsgFormat
                   /\ refinementPrompt' = <<>>
                   /\ Finish(i, "RefineSettled", c)
                   /\ UNCHANGED <<newsletterHtml>>
         ELSE /\ newsletterHtml' = res.value
              /\ Finish(i, "RefineSettled", c)
              /\ UNCHANGED <<error, refinementPrompt>>
      /\ UNCHANGED <<formVars, headerImageUrl, articles, probe>>

\* the refinement call settles: lines 102-121, or catch; finally
RefineSettled(i, r) ==
  LET res == refineNewsletter(r)
      c == [cyc[i] EXCEPT !.resps = Append(@, r)]
  IN  /\ cyc[i].pc = "refine"
      /\ IF ~res.ok
         THEN /\ error' = res.error
              /\ refinementPrompt' = <<>>
              /\ Finish(i, "RefineSettled", c)
              /\ UNCHANGED <<newsletterHtml>>
         ELSE IF IsJsonLike(res.value)
         THEN IF IsImageDirective(res.value)
              THEN /\ Suspend(i, "RefineSettled",
                              [c EXCEPT !.pc = "rimage",
                                        !.calls = Append(@, ImageCall(NewImagePrompt(res.value)))])
                   /\ UNCHANGED <<newsletterHtml, refinementPrompt, loadingAction, error>>
              ELSE /\ error' = MsgFormat
                   /\ refinementPrompt' = <<>>
                   /\ Finish(i, "RefineSettled", c)
                   /\ UNCHANGED <<newsletterHtml>>
         ELSE /\ newsletterHtml' = res.value
              /\ refinementPrompt' = <<>>
              /\ Finish(i, "RefineSettled", c)
              /\ UNCHANGED <<error>>
      /\ UNCHANGED <<formVars, headerImageUrl, articles, probe>>

\* mutant: a failed image request of a refinement is not reported
RefineImageSettled_Swallows(i, r) ==
  LET res == generateHeaderImage(r)
      c == [cyc[i] EXCEPT !.resps = Append(@, r)]
  IN  /\ cyc[i].pc = "rimage"
      /\ IF res.ok
         THEN headerImageUrl' = DataUri(res.value) /\ UNCHANGED error
         ELSE UNCHANGED <<error, headerImageUrl>>
      /\ refinementPrompt' = <<>>
      /\ Finish(i, "RefineImageSettled", c)
      /\ UNCHANGED <<formVars, newsletterHtml, articles, probe>>

\* the image call of a refinement settles: line 111, or the inner catch
\* that rethrows; finally
RefineImageSettled(i, r) ==
  LET res == generateHeaderImage(r)
      c == [cyc[i] EXCEPT !.resps = Append(@, r)]
  IN  /\ cyc[i].pc = "rimage"
      /\ IF res.ok
         THEN headerImageUrl' = DataUri(res.value) /\ UNCHANGED error
         ELSE error' = MsgFormat /\ UNCHANGED headerImageUrl
      /\ refinementPrompt' = <<>>
      /\ Finish(i, "RefineImageSettled", c)
      /\ UNCHANGED <<formVars, newsletterHtml, articles, probe>>

(***************************************************************************)
(* The form.                                                               *)
(***************************************************************************)
Directives == {<<"make", " ", "it", " ", "shorter">>, <<" ", "\n">>}
CustomPrompts == {<<" ", "a", " ", "red", " ", "sky", " ">>}

NoEvent == [op |-> "form", c |-> NoCycle]

\* onChange of the refinement textarea
setRefinementPrompt(v) ==
  /\ refinementPrompt' = v
  /\ ev' = NoEvent
  /\ UNCHANGED <<formVars, newsletterHtml, headerImageUrl, articles, loadingAction,
                 error, cyc, probe>>

\* onChange of the checkbox
setShouldGenerateImage(b) ==
  /\ shouldGenerateImage' = b
  /\ ev' = NoEvent
  /\ UNCHANGED <<topics, inputValue, customImagePrompt, sessVars, cyc, probe>>

\* onChange of the custom image prompt
setCustomImagePrompt(v) ==
  /\ customImagePrompt' = v
  /\ ev' = NoEvent
  /\ UNCHANGED <<topics, inputValue, shouldGenerateImage, sessVars, cyc, probe>>

\* TopicInput: onChange of the topic field
setInputValue(v) ==
  /\ inputValue' = v
  /\ ev' = NoEvent
  /\ UNCHANGED <<topics, shouldGenerateImage, customImagePrompt, sessVars, cyc, probe>>

\* topics.includes(t)
Includes(ts, t) == \E i \in 1..Len(ts) : ts[i] = t

\* mutant: a topic that is already in the list is added again
handleAddTopic_NoDedup ==
  /\ IF Trim(inputValue) # <<>>
     THEN topics' = Append(topics, Trim(inputValue)) /\ inputValue' = <<>>
     ELSE UNCHANGED <<topics, inputValue>>
  /\ ev' = [op |-> "handleAddTopic",
            c |-> [NoCycle EXCEPT !.kind = "topic", !.pc = "done", !.topics = topics,
                                  !.arg = inputValue]]
  /\ UNCHANGED <<shouldGenerateImage, customImagePrompt, sessVars, cyc, probe>>

\* TopicInput: the Add Topic button, or Enter in the topic field
handleAddTopic ==
  /\ IF Trim(inputValue) # <<>> /\ ~Includes(topics, Trim(inputValue))
     THEN topics' = Append(topics, Trim(inputValue)) /\ inputValue' = <<>>
     ELSE UNCHANGED <<topics, inputValue>>
  /\ ev' = [op |-> "handleAddTopic",
            c |-> [NoCycle EXCEPT !.kind = "topic", !.pc = "done", !.topics = topics,
                                  !.arg = inputValue]]
  /\ UNCHANGED <<shouldGenerateImage, customImagePrompt, sessVars, cyc, probe>>

\* TopicInput: the remove button of a topic
handleRemoveTopic(topicToRemove) ==
  /\ topics' = SelectSeq(topics, LAMBDA topic : topic # topicToRemove)
  /\ ev' = [op |-> "handleRemoveTopic",
            c |-> [NoCycle EXCEPT !.kind = "topic", !.pc = "done", !.topics = topics,
                                  !.arg = topicToRemove]]
  /\ UNCHANGED <<inputValue, shouldGenerateImage, customImagePrompt, sessVars, cyc, probe>>

(***************************************************************************)
(* The program as its buttons drive it: both buttons and the refinement    *)
(* textarea are disabled while isLoading.                                  *)
(***************************************************************************)
GenerateWhenIdle == ~isLoading /\ handleGenerateNewsletter /\ UNCHANGED invocations
RefineWhenIdle == ~isLoading /\ handleRefineNewsletter /\ UNCHANGED invocations
TypeDirective ==
  /\ ~isLoading
  /\ \E v \in Directives : setRefinementPrompt(v)
  /\ UNCHANGED invocations
ToggleImage ==
  /\ ~isLoading
  /\ setShouldGenerateImage(~shouldGenerateImage)
  /\ UNCHANGED invocations
TypeCustomPrompt ==
  /\ ~isLoading
  /\ \E v \in CustomPrompts \cup {<<>>} : v # customImagePrompt /\ setCustomImagePrompt(v)
  /\ UNCHANGED invocations

RemoveTopic ==
  /\ \E i \in 1..Len(topics) : handleRemoveTopic(topics[i])
  /\ UNCHANGED invocations

\* a call in flight settles with one of the given responses
NewsSettles(rs) == \E i \in Slots, r \in rs : NewsSettled(i, r) /\ UNCHANGED invocations
DraftSettles(rs) == \E i \in Slots, r \in rs : DraftSettled(i, r) /\ UNCHANGED invocations
ImageSettles(rs) == \E i \in Slots, r \in rs : ImageSettled(i, r) /\ UNCHANGED invocations
RefineSettles(rs) == \E i \in Slots, r \in rs : RefineSettled(i, r) /\ UNCHANGED invocations
RefineImageSettles(rs) ==
  \E i \in Slots, r \in rs : RefineImageSettled(i, r) /\ UNCHANGED invocations

Next ==
  \/ GenerateWhenIdle
  \/ RefineWhenIdle
  \/ TypeDirective
  \/ ToggleImage
  \/ TypeCustomPrompt
  \/ RemoveTopic
  \/ NewsSettles(NewsResponses)
  \/ DraftSettles(DraftResponses)
  \/ ImageSettles(ImageResponses)
  \/ RefineSettles(RefineResponses)
  \/ RefineImageSettles(ImageResponses)

Spec == Init /\ [][Next]_vars

\* The same program when every boundary call of a refinement eventually
\* resolves or rejects: the promise awaited at line 102 or 110 settles and
\* the handler resumes.
Fairness ==
  /\ WF_vars(RefineSettles(RefineResponses))
  /\ WF_vars(RefineImageSettles(ImageResponses))

SpecLive == Init /\ [][Next]_vars /\ Fairness

(***************************************************************************)
(* The handlers by themselves: a caller may invoke either at any time,     *)
(* also while an invocation is in flight (at most MaxCycles at once).      *)
(***************************************************************************)
SetDirective == (\E v \in Directives : setRefinementPrompt(v)) /\ UNCHANGED invocations

\* the responses the boundary gives in this specification
FewNews == {Rejected, Resolved(NewsFenced)}
FewDrafts == {Resolved(DraftBare)}
FewImages == {Resolved(<<"iVBOR1">>)}
FewRefinements == {Resolved(RefineHtml), Resolved(RefineImage)}

\* an invocation of a handler, whatever isLoading is
InvokeGenerate ==
  /\ invocations < MaxInvocations
  /\ invocations' = invocations + 1
  /\ handleGenerateNewsletter

InvokeRefine ==
  /\ invocations < MaxInvocations
  /\ invocations' = invocations + 1
  /\ handleRefineNewsletter

NextReentrant ==
  \/ InvokeGenerate
  \/ InvokeRefine
  \/ SetDirective
  \/ NewsSettles(FewNews)
  \/ DraftSettles(FewDrafts)
  \/ ImageSettles(FewImages)
  \/ RefineSettles(FewRefinements)
  \/ RefineImageSettles(FewImages)

SpecReentrant == Init /\ [][NextReentrant]_vars

(***************************************************************************)
(* The TopicInput component by itself: the topic field is typed into, and  *)
(* topics are added and removed, in any order.                             *)
(***************************************************************************)
TopicInputs == { <<>>, <<" ">>, <<"AI">>, <<" ", "AI", " ">>, <<"ML">>, <<"ML", "\n">>,
                 <<" ", "AI", " ", "in", " ", "healthcare">> }

TypeTopic ==
  /\ \E v \in TopicInputs : v # inputValue /\ setInputValue(v)
  /\ UNCHANGED invocations

AddTopic == handleAddTopic /\ UNCHANGED invocations

NextTopics ==
  \/ TypeTopic
  \/ AddTopic
  \/ RemoveTopic

SpecTopics == Init /\ [][NextTopics]_vars

(***************************************************************************)
(* The extraction of fetchTrendingNews by itself, applied to one response  *)
(* text out of a family of fenced and unfenced texts.                      *)
(***************************************************************************)
Prefixes == { <<>>,
              <<"Here", " ", "you", " ", "go", ":", "\n">>,
              <<"see", " ", "[", "1", "]", "\n">>,
              Fence \o <<"text", "\n", "note", "\n">> \o Fence \o <<"\n">> }
Tags == { <<>>, <<"json">> }
Gaps == { <<>>, <<"\n">> }
Arrays == { <<"[">> \o Article("T1") \o <<"]">>,
            <<"[", "1", ",", " ", "[", "2", "]", "]">>,
            <<"[">> \o Article("T1") \o <<",", "\n">> \o Article("T2") \o <<"]">> }
PlainSuffixes == { <<>>,
                   <<"\n", "Hope", " ", "this", " ", "helps">>,
                   <<" ", "see", " ", "[", "2", "]", "\n">> }
FenceSuffixes == { <<"\n", "Also", ":", "\n">> \o Fence \o <<"[", "2", "]">> \o Fence,
                   <<"\n", "or", " ", "a", "[", "0", "]", " ">> \o Fence \o <<"sh", "\n", "ls", "\n">> \o Fence }
Suffixes == PlainSuffixes \cup FenceSuffixes

\* a response holding a well-formed fenced block around the array arr
FencedNews(pre, tag, gap, arr, suf) ==
  pre \o Fence \o tag \o gap \o arr \o gap \o Fence \o suf

FencedTexts ==
  { FencedNews(pre, tag, gap, arr, suf) :
      pre \in Prefixes, tag \in Tags, gap \in Gaps, arr \in Arrays, suf \in Suffixes }

\* draft responses: a fenced block around the whole payload, tagged or
\* not, and fenced blocks with text before, after or around them
DraftWholeUntagged == Fence \o <<"\n", "<p>A</p>", "\n">> \o Fence \o <<"\n">>
DraftProseBefore == <<"Here", " ", "it", " ", "is", ":", "\n">> \o Fence
                      \o <<"html", "\n", "<p>A</p>", "\n">> \o Fence
DraftProseAfter == Fence \o <<"html", "\n", "<p>A</p>", "\n">> \o Fence
                     \o <<"\n", "<p>B</p>">>
DraftInlineFence == <<"<p>Run", " ">> \o Fence \o <<"ls">> \o Fence \o <<" ", "now</p>">>
DraftTwoBlocks == Fence \o <<"<p>A</p>">> \o Fence \o <<"\n">> \o Fence \o <<"<p>B</p>">> \o Fence
DraftEmptyFence == Fence \o <<" ">> \o Fence
DraftProbes == DraftTexts \cup {DraftWholeUntagged, DraftProseBefore, DraftProseAfter,
                                DraftInlineFence, DraftTwoBlocks, DraftEmptyFence}

ProbeTexts == FencedTexts \cup NewsTexts \cup DraftProbes

InitExtract ==
  /\ topics = << <<"AI">> >>
  /\ inputValue = <<>>
  /\ shouldGenerateImage = TRUE
  /\ customImagePrompt = <<>>
  /\ newsletterHtml = NULL
  /\ headerImageUrl = NULL
  /\ articles = <<>>
  /\ refinementPrompt = <<>>
  /\ loadingAction = "null"
  /\ error = NULL
  /\ cyc = [i \in Slots |-> NoCycle]
  /\ ev = [op |-> "init", c |-> NoCycle]
  /\ invocations = 0
  /\ probe \in { [NoProbe EXCEPT !.raw = t] : t \in ProbeTexts }

\* fetchTrendingNews on the response text probe.raw
ExtractNews ==
  LET r == Resolved(probe.raw)
      rawText == Trim(probe.raw)
      reached == NewsFenceFound(rawText) \/ ~NewsNoBrackets(rawText)
  IN  /\ probe.fn = "none"
      /\ probe' = [fn |-> "fetchTrendingNews", raw |-> probe.raw,
                   parsed |-> reached,
                   out |-> IF reached THEN NewsJsonText(rawText) ELSE <<>>,
                   ok |-> fetchTrendingNews(r).ok,
                   error |-> fetchTrendingNews(r).error]
      /\ UNCHANGED <<formVars, sessVars, cyc, ev, invocations>>

\* generateNewsletter on the response text probe.raw
ExtractDraft ==
  LET res == generateNewsletter(Resolved(probe.raw))
  IN  /\ probe.fn = "none"
      /\ probe' = [fn |-> "generateNewsletter", raw |-> probe.raw, parsed |-> FALSE,
                   out |-> res.value, ok |-> res.ok, error |-> res.error]
      /\ UNCHANGED <<formVars, sessVars, cyc, ev, invocations>>

NextExtract == ExtractNews \/ ExtractDraft

SpecExtract == InitExtract /\ [][NextExtract]_vars

(***************************************************************************)
(* Properties.                                                             *)
(***************************************************************************)
Handlers == {"handleGenerateNewsletter", "handleRefineNewsletter"}

\* C1: a handler invoked while a cycle is in flight (loadingAction not null)
\* is a no-op (no boundary call, session state as it was), and so at most
\* one generation-or-refinement cycle is in flight at any time.
C1_EntryRefusesWhileLoading ==
  /\ (ev.op \in Handlers /\ ev.c.pre.loading # "null")
       => (ev.c.calls = <<>> /\ Snapshot = ev.c.pre)
  /\ Cardinality(InFlight) <= 1

\* C2: the generation handler invoked with an empty topic list issues no
\* boundary call, does not enter the generating state, and records the
\* validation error; the rest of the session state is as it was.
C2_EmptyTopicsValidation ==
  (ev.op = "handleGenerateNewsletter" /\ topics = <<>>)
    => /\ ev.c.calls = <<>>
       /\ InFlight = {}
       /\ loadingAction = "null"
       /\ error = MsgNoTopics
       /\ Snapshot = [ev.c.pre EXCEPT !.error = MsgNoTopics]

C2_Witness ==
  /\ ev.op = "handleGenerateNewsletter"
  /\ topics = <<>>
  /\ ev.c.pre.error # MsgNoTopics
  /\ error = MsgNoTopics
  /\ newsletterHtml # NULL

\* the handler invocations the state shows: those in flight and the one the
\* last step belongs to
Shown == {cyc[i] : i \in InFlight} \cup {ev.c}
Generations == { c \in Shown : c.kind = "generate" /\ c.calls # <<>> }
Refinements == { c \in Shown : c.kind = "refine" /\ c.calls # <<>> }

Fns(c) == [k \in 1..Len(c.calls) |-> c.calls[k].fn]

\* what the service functions made of the responses of an invocation
NewsOf(c) == fetchTrendingNews(c.resps[1])
DraftOf(c) == generateNewsletter(c.resps[2])
ImageOf(c) == generateHeaderImage(c.resps[3])

\* C3: in a generation cycle the boundary calls are ordered news, draft,
\* image; a call is issued only after the one before it settled; the draft
\* request follows a news response with at least one article, the image
\* request follows a successful draft, and a failed news or draft step ends
\* the cycle with no later request.
C3_CallOrder ==
  \A c \in Generations :
    /\ Fns(c) \in { <<"fetchTrendingNews">>,
                    <<"fetchTrendingNews", "generateNewsletter">>,
                    <<"fetchTrendingNews", "generateNewsletter", "generateHeaderImage">> }
    /\ Len(c.calls) <= Len(c.resps) + 1
    /\ Len(c.calls) >= 2 => NewsOf(c).ok /\ Len(NewsOf(c).value) >= 1
    /\ Len(c.calls) >= 3 => DraftOf(c).ok
    /\ (Len(c.resps) >= 1 /\ ~NewsOf(c).ok) => (c.pc = "done" /\ Len(c.calls) = 1)
    /\ (Len(c.resps) >= 2 /\ ~DraftOf(c).ok) => (c.pc = "done" /\ Len(c.calls) = 2)

C3_Witness ==
  /\ ev.c.kind = "generate"
  /\ ev.c.pc = "done"
  /\ Len(ev.c.calls) = 3
  /\ Len(ev.c.resps) = 3

\* a generation cycle has just ended
GenerationEnded == ev.c.kind = "generate" /\ ev.c.pc = "done" /\ ev.c.calls # <<>>

\* the image request of the generation cycle that just ended failed
ImageFailed == GenerationEnded /\ Len(ev.c.resps) = 3 /\ ~ImageOf(ev.c).ok

\* C4 as claimed: a generation cycle ends with the document or with an
\* error, never both; after a failed image request no draft body is kept.
C4_NoPartialSuccess ==
  GenerationEnded => ~(error # NULL /\ newsletterHtml # NULL)

\* C4 as amended: a generation cycle ends with a document, an error, or
\* both; it ends with both exactly when its image request failed, and then
\* the error is the image error, the header image is null and the body is
\* the draft of this cycle.
C4_ImageFailureKeepsDraft ==
  GenerationEnded =>
    /\ error # NULL \/ newsletterHtml # NULL
    /\ (error # NULL /\ newsletterHtml # NULL) <=> ImageFailed
    /\ ImageFailed => /\ error = MsgImage
                      /\ headerImageUrl = NULL
                      /\ newsletterHtml = DraftOf(ev.c).value

C4_Witness == ImageFailed /\ error = MsgImage /\ newsletterHtml = <<"<h1>News</h1>">>

\* C5: a generation cycle starts from a cleared session, so the articles,
\* body, image and error the session holds during and after the cycle are
\* made of the responses of this cycle alone.
C5_FullReset ==
  \A c \in Generations :
    /\ articles = IF Len(c.resps) >= 1 /\ NewsOf(c).ok THEN NewsOf(c).value ELSE <<>>
    /\ newsletterHtml = IF Len(c.resps) >= 2 /\ DraftOf(c).ok THEN DraftOf(c).value ELSE NULL
    /\ headerImageUrl = IF Len(c.resps) >= 3 /\ ImageOf(c).ok THEN DataUri(ImageOf(c).value)
                        ELSE NULL
    /\ error = IF Len(c.resps) >= 1 /\ ~NewsOf(c).ok THEN NewsOf(c).error
               ELSE IF Len(c.resps) >= 2 /\ ~DraftOf(c).ok THEN DraftOf(c).error
               ELSE IF Len(c.resps) >= 3 /\ ~ImageOf(c).ok THEN ImageOf(c).error
               ELSE NULL

\* a second cycle fails at its news step after a first one left a document,
\* an image and articles
C5_Witness ==
  /\ GenerationEnded
  /\ ev.c.pre.html # NULL /\ ev.c.pre.img # NULL /\ ev.c.pre.articles # <<>>
  /\ ~NewsOf(ev.c).ok
  /\ articles = <<>> /\ newsletterHtml = NULL /\ headerImageUrl = NULL

\* the prompts of the image directives the refinement boundary returns
DirectivePrompts == {<<"mountains", " ", "at", " ", "dawn">>, <<"sea">>}

\* the text refineNewsletter handed to the handler
ResultOf(c) == refineNewsletter(c.resps[1])

\* C6: when the refinement result is the image directive with a non-empty
\* prompt P, the image boundary is called with exactly P, and once that
\* call succeeded the header image is the new one while the body and the
\* articles are those the refinement found.
C6_ImageDirective ==
  \A c \in Refinements : \A p \in DirectivePrompts :
    (Len(c.resps) >= 1 /\ ResultOf(c).ok /\ ResultOf(c).value = Directive("image", p))
      => /\ Len(c.calls) = 2
         /\ c.calls[2] = ImageCall(p)
         /\ newsletterHtml = c.pre.html
         /\ articles = c.pre.articles
         /\ (Len(c.resps) = 2 /\ generateHeaderImage(c.resps[2]).ok)
              => headerImageUrl = DataUri(generateHeaderImage(c.resps[2]).value)

C6_Witness ==
  /\ ev.op = "RefineImageSettled"
  /\ ResultOf(ev.c).value = Directive("image", <<"mountains", " ", "at", " ", "dawn">>)
  /\ ev.c.calls[2].prompt = <<"mountains", " ", "at", " ", "dawn">>
  /\ headerImageUrl = DataUri(<<"iVBOR2">>)
  /\ ev.c.pre.img = DataUri(<<"iVBOR1">>)
  /\ newsletterHtml = ev.c.pre.html

\* the trimmed text starts with an opening and ends with a closing brace
ObjectShaped(t) ==
  Trim(t) # <<>> /\ Trim(t)[1] = "{" /\ Trim(t)[Len(Trim(t))] = "}"

\* C7: when the refinement result is not object-shaped, the body becomes
\* exactly that text, no image request is issued, and the header image and
\* the articles are those the refinement found.
C7_HtmlReplacesBody ==
  \A c \in Refinements :
    (Len(c.resps) >= 1 /\ ResultOf(c).ok /\ ~ObjectShaped(ResultOf(c).value))
      => /\ c.pc = "done"
         /\ Len(c.calls) = 1
         /\ newsletterHtml = ResultOf(c).value
         /\ headerImageUrl = c.pre.img
         /\ articles = c.pre.articles

C7_Witness ==
  /\ ev.op = "RefineSettled"
  /\ ev.c.resps[1] = Resolved(RefineFencedHtml)
  /\ newsletterHtml = <<"<p>Fenced</p>">>
  /\ ev.c.pre.html # newsletterHtml
  /\ headerImageUrl # NULL

\* C8: the refinement handler invoked without a document, or with an empty
\* or whitespace-only directive, issues no call, does not enter the
\* refining state and leaves document, articles, error and directive as
\* they were.
C8_RefineNoOp ==
  (ev.op = "handleRefineNewsletter" /\ (Falsy(ev.c.pre.html) \/ Trim(ev.c.pre.prompt) = <<>>))
    => /\ ev.c.calls = <<>>
       /\ InFlight = {}
       /\ Snapshot = ev.c.pre

C8_Witness ==
  /\ ev.op = "handleRefineNewsletter"
  /\ newsletterHtml # NULL
  /\ refinementPrompt = <<" ", "\n">>
  /\ ev.c.calls = <<>>
  /\ loadingAction = "null"

\* C9: for every news response that holds a well-formed fenced block
\* (tagged json or not) around a JSON array, the text handed to JSON.parse
\* is exactly that array, whatever precedes or follows the block.
C9_FencedArrayExact ==
  \A pre \in Prefixes, tag \in Tags, gap \in Gaps, arr \in Arrays, suf \in Suffixes :
    (probe.fn = "fetchTrendingNews" /\ probe.raw = FencedNews(pre, tag, gap, arr, suf))
      => (probe.parsed /\ probe.out = arr)

\* C10: when no fenced array matches in a news response, the text parsed is
\* the one from the first "[" to the last "]"; when there is no "[", no "]"
\* or the last "]" precedes the first "[", the cycle ends and the error the
\* session reports is the one that says no JSON array was found.
C10_BracketFallback ==
  \A c \in Generations :
    LET raw == Trim(c.resps[1].text)
        first == IndexOf(raw, "[")
        last == LastIndexOf(raw, "]")
        sub == SubSeq(raw, first, last)
    IN  (Len(c.resps) >= 1 /\ ~c.resps[1].rejects /\ NewsMatchStarts(raw) = {})
          => IF first = 0 \/ last = 0 \/ last < first
             THEN c.pc = "done" /\ (ev.op = "NewsSettled" => error = MsgNoArray)
             ELSE /\ ~JsonValid(sub) => (ev.op = "NewsSettled" => error = MsgParse)
                  /\ (JsonValid(sub) /\ Len(JsonArray(sub)) # 0)
                       => (ev.op = "NewsSettled" => articles = JsonArray(sub))

\* the news step of invocation c has just settled with a resolved response
NewsJustSettled(c) ==
  ev.op = "NewsSettled" /\ c = ev.c /\ Len(c.resps) = 1 /\ ~c.resps[1].rejects

\* array boundaries were found in the trimmed news response: a fenced array
\* or a first "[" followed by a last "]"
BoundariesFound(c) ==
  LET rawText == Trim(c.resps[1].text)
  IN  NewsFenceFound(rawText) \/ ~NewsNoBrackets(rawText)

\* the text between the boundaries
Isolated(c) == NewsJsonText(Trim(c.resps[1].text))

\* C11: when the isolated news text is a valid, empty JSON array, the cycle
\* ends at the news step with no draft or image request, and the error the
\* session reports is one of the messages that say no articles were found.
C11_EmptyArrayReported ==
  \A c \in Generations :
    (NewsJustSettled(c) /\ BoundariesFound(c) /\ JsonValid(Isolated(c))
       /\ Len(JsonArray(Isolated(c))) = 0)
      => /\ c.pc = "done"
         /\ Len(c.calls) = 1
         /\ loadingAction = "null"
         /\ error \in {MsgNoArticles, MsgNoRelevant}

\* C12: a news response with array boundaries around invalid JSON ends the
\* cycle with the parse message; a response without array boundaries ends
\* it with a message that is not the parse message.
C12_ParseErrorDistinct ==
  \A c \in Generations :
    NewsJustSettled(c)
      => /\ (BoundariesFound(c) /\ ~JsonValid(Isolated(c)))
              => (c.pc = "done" /\ error = MsgParse)
         /\ ~BoundariesFound(c)
              => (c.pc = "done" /\ error # NULL /\ error # MsgParse)

\* a cycle ends with the parse message after one that ended with the
\* message for a response without an array
C12_Witness ==
  /\ NewsJustSettled(ev.c)
  /\ ev.c.resps[1] = Resolved(NewsBadJson)
  /\ error = MsgParse
  /\ ev.c.pre.error = MsgFetch

\* a step of invocation c failed: a service function rejected, or the
\* refinement result was object-shaped without being an image directive
StepFailed(c) ==
  \/ /\ c.kind = "generate"
     /\ \/ Len(c.resps) >= 1 /\ ~NewsOf(c).ok
        \/ Len(c.resps) >= 2 /\ ~DraftOf(c).ok
        \/ Len(c.resps) >= 3 /\ ~ImageOf(c).ok
  \/ /\ c.kind = "refine"
     /\ \/ Len(c.resps) >= 1 /\ ~ResultOf(c).ok
        \/ Len(c.resps) >= 1 /\ ResultOf(c).ok /\ ObjectShaped(ResultOf(c).value)
             /\ ~IsImageDirective(ResultOf(c).value)
        \/ Len(c.resps) >= 2 /\ ~generateHeaderImage(c.resps[2]).ok

\* C13: a cycle in which a step failed does not go on, and when it ends the
\* session is idle and holds an error message.
C13_NoFailureSwallowed ==
  \A c \in Generations \cup Refinements :
    StepFailed(c) => /\ c.pc = "done"
                     /\ c = ev.c
                     /\ loadingAction = "null"
                     /\ error # NULL

\* the image request of a refinement failed and the session reports it
C13_Witness ==
  /\ ev.op = "RefineImageSettled"
  /\ StepFailed(ev.c)
  /\ Len(ev.c.resps) = 2
  /\ loadingAction = "null"
  /\ error = MsgFormat

\* a refinement cycle has just ended
RefinementEnded == ev.c.kind = "refine" /\ ev.c.pc = "done" /\ ev.c.calls # <<>>

\* C14: a session in the refining state eventually is idle again, and when
\* a refinement cycle ends the session is idle and the directive input is
\* empty, whatever the outcome.
C14_RefinementReturns ==
  /\ (loadingAction = "refine") ~> (loadingAction = "null")
  /\ [](RefinementEnded => (loadingAction = "null" /\ refinementPrompt = <<>>))

\* a refinement that replaced the body ended with the directive cleared
C14_Witness ==
  /\ RefinementEnded
  /\ ev.op = "RefineSettled"
  /\ ev.c.pre.prompt = <<"make", " ", "it", " ", "shorter">>
  /\ newsletterHtml = <<"<h1>Refined</h1>">>
  /\ error = NULL
  /\ refinementPrompt = <<>>
  /\ loadingAction = "null"

\* the text has a fence at position i
FenceAt(t, i) == i >= 1 /\ i + 2 <= Len(t) /\ SubSeq(t, i, i + 2) = Fence

\* the payload t is one fenced block and nothing else: it opens with a
\* fence, closes with a fence and has no fence in between
WrapsWhole(t) ==
  /\ Len(t) >= 6
  /\ FenceAt(t, 1)
  /\ FenceAt(t, Len(t) - 2)
  /\ \A i \in 2..(Len(t) - 3) : ~FenceAt(t, i)

\* the text the block encloses, without the html tag and without leading
\* or trailing whitespace
Enclosed(t) ==
  LET inner == SubSeq(t, 4, Len(t) - 3)
  IN  IF inner # <<>> /\ inner[1] = "html" THEN Trim(Tail(inner)) ELSE Trim(inner)

\* C15: of a non-blank draft response, the body returned is the enclosed
\* text when one fenced block (untagged or tagged html) wraps the whole
\* trimmed payload, and the whole trimmed payload in every other case.
C15_DraftFenceWhole ==
  (probe.fn = "generateNewsletter" /\ Trim(probe.raw) # <<>>)
    => /\ probe.ok
       /\ LET t == Trim(probe.raw)
          IN  IF WrapsWhole(t) /\ Enclosed(t) # <<>>
              THEN probe.out = Enclosed(t)
              ELSE probe.out = t

\* an object-shaped text that is not the image directive: not valid JSON,
\* a requestType other than "image", or newImagePrompt missing or empty
NotADirective(t) ==
  /\ ObjectShaped(t)
  /\ \/ ~JsonValid(t)
     \/ Prop(JsonObject(t), "requestType") # <<Q, "image", Q>>
     \/ Prop(JsonObject(t), "newImagePrompt") \in {Undefined, <<Q, Q>>}

\* C16: a refinement cycle that ends with an error leaves the body and the
\* header image as it found them; an object-shaped result that is not the
\* image directive ends the cycle with the format error and no image
\* request, the body unchanged.
C16_RefineErrorKeepsDocument ==
  \A c \in Refinements :
    /\ (c.pc = "done" /\ error # NULL)
         => (newsletterHtml = c.pre.html /\ headerImageUrl = c.pre.img)
    /\ (Len(c.resps) >= 1 /\ ResultOf(c).ok /\ NotADirective(ResultOf(c).value))
         => /\ c.pc = "done"
            /\ Len(c.calls) = 1
            /\ error = MsgFormat
            /\ newsletterHtml = c.pre.html
            /\ headerImageUrl = c.pre.img

\* a directive of the wrong request type was refused, the document and its
\* image kept
C16_Witness ==
  /\ ev.op = "RefineSettled"
  /\ ev.c.resps[1] = Resolved(RefineWrongType)
  /\ error = MsgFormat
  /\ newsletterHtml = ev.c.pre.html
  /\ headerImageUrl = ev.c.pre.img
  /\ headerImageUrl # NULL

\* the entries of a list
Entries(ts) == { ts[i] : i \in 1..Len(ts) }

NoDuplicates(ts) == \A i, j \in 1..Len(ts) : ts[i] = ts[j] => i = j

\* an empty or whitespace-only text
Blank(t) == \A i \in 1..Len(t) : t[i] \in {" ", "\n"}

\* ts is what is left of the duplicate-free list pre when exactly the
\* topic t is deleted: the other entries, in their order
Without(ts, pre, t) ==
  /\ Entries(ts) = Entries(pre) \ {t}
  /\ NoDuplicates(ts)
  /\ \A i, j \in 1..Len(ts) : i < j =>
       \E k, l \in 1..Len(pre) : k < l /\ pre[k] = ts[i] /\ pre[l] = ts[j]

\* C17: the topic list never holds a duplicate or a blank entry; an add of
\* a blank or already present topic leaves it unchanged, any other add
\* appends the trimmed input at its end; a remove deletes exactly the named
\* topic.
C17_TopicListDeduplicated ==
  /\ NoDuplicates(topics)
  /\ \A i \in 1..Len(topics) : ~Blank(topics[i]) /\ topics[i] = Trim(topics[i])
  /\ ev.op = "handleAddTopic" =>
       IF Blank(ev.c.arg) \/ Trim(ev.c.arg) \in Entries(ev.c.topics)
       THEN topics = ev.c.topics
       ELSE topics = Append(ev.c.topics, Trim(ev.c.arg))
  /\ ev.op = "handleRemoveTopic" => Without(topics, ev.c.topics, ev.c.arg)

\* an input with blanks around a new topic was added, trimmed, as the third
\* entry
C17_Witness ==
  /\ ev.op = "handleAddTopic"
  /\ ev.c.arg = <<" ", "AI", " ", "in", " ", "healthcare">>
  /\ Len(ev.c.topics) = 2
  /\ topics = Append(ev.c.topics, <<"AI", " ", "in", " ", "healthcare">>)

\* C18: in an idle session a header image comes with a non-empty body and
\* a body with a non-empty article list; the articles are those the news
\* fetch of the generation cycle returned, and a refinement leaves them as
\* they are.
C18_IdleDocumentInvariant ==
  /\ ~isLoading =>
       /\ headerImageUrl # NULL => (newsletterHtml # NULL /\ newsletterHtml # <<>>)
       /\ newsletterHtml # NULL => articles # <<>>
  /\ \A c \in Generations :
       newsletterHtml # NULL => (Len(c.resps) >= 1 /\ articles = NewsOf(c).value)
  /\ \A c \in Refinements : articles = c.pre.articles

\* idle after a refinement replaced the header image of a document
C18_Witness ==
  /\ ~isLoading
  /\ ev.op = "RefineImageSettled"
  /\ headerImageUrl = DataUri(<<"iVBOR2">>)
  /\ newsletterHtml = <<"<h1>Refined</h1>">>
  /\ Len(articles) = 1

====
